---- MODULE Spec2Model ----
(***************************************************************************)
(* The bulk route processor of routes/bulkRouteProcessor.js as a state     *)
(* machine.  One action is one run of the JavaScript event loop: the code  *)
(* that executes between two awaits of a handler, a pipeline or a timer.   *)
(***************************************************************************)
EXTENDS Integers, Sequences, FiniteSets, TLC

\* ------------------------------------------------------------------ bounds
MaxItems == 3
Jobs == {1, 2}
Items == 1..MaxItems

\* ------------------------------------------------------- values and options
\* A JavaScript value that may be undefined: <<>> is undefined, <<v>> is v.
\* NaN (undefined + 1) is kept as <<>> too: the status endpoint reads both
\* through `x || 0`, and NaN + 1 is NaN again.
Undef == <<>>
Def(v) == <<v>>

userId == "u1"

Tasks == {"basic", "sharpTurns", "networkCoverage", "roadConditions", "accidentData", "seasonalWeather"}

Terminal == {"completed", "failed", "cancelled"}

VARIABLES
    processingStates,  \* the Map processingStates: a function owner -> state
    routes,            \* the non-deleted Route documents
    routeEntries,      \* per job: the parsed manifest
    opts,              \* per job: the options of the request body
    sequential,        \* the client sends a request only after the previous job ended
    pc,                \* per job: where processRoutesEnhancedWithVisibilityAndStatus stands
    batchIndex,        \* per job: the loop variable batchIndex
    results,           \* per job: the local lists results.successful/failed/skipped
    wrapper,           \* per job and item: the Promise.race of pipeline and timer
    pipe,              \* per job and item: the await processSingleRoute... stands at
    res,               \* per job and item: the result object of the pipeline
    tasks,             \* per job and item: the launched enrichment tasks
    recs,              \* per job and item: the tasks whose records are in the store
    manifest,          \* the rows csv-parser delivers for the uploaded file
    rowsRead,          \* the number of 'data' events handled so far
    parsedRoutes,      \* parseBulkRoutesCSV: the local array routes
    parseErrors,       \* parseBulkRoutesCSV: the local array errors
    parsePc,           \* parseBulkRoutesCSV: no parse, reading, resolved or rejected
    gpsPointsLength,   \* calculateRouteDetailsOptimized: gpsPoints.length
    routePointsLength  \* calculateRouteDetailsOptimized: routePoints.length when it returns

parseVars == <<manifest, rowsRead, parsedRoutes, parseErrors, parsePc>>

jobVars == <<processingStates, routes, routeEntries, opts, sequential, pc, batchIndex, results,
             wrapper, pipe, res, tasks, recs>>

detailVars == <<gpsPointsLength, routePointsLength>>

vars == <<jobVars, parseVars, detailVars>>

\* ------------------------------------------------------ processing state map
StateFields == {"status", "totalRoutes", "completedRoutes", "failedRoutes",
                "enhancedDataCollection", "visibilityAnalysis", "results", "error",
                "lastUpdate"}

getProcessingState(ps, uid) == IF uid \in DOMAIN ps THEN Def(ps[uid]) ELSE Undef

updateProcessingState(ps, uid, update) ==
    LET current == IF uid \in DOMAIN ps THEN ps[uid] ELSE [f \in StateFields |-> Undef]
        updated == [f \in StateFields |->
                       IF f = "lastUpdate" THEN Def("now")
                       ELSE IF f \in DOMAIN update THEN update[f] ELSE current[f]]
    IN [k \in DOMAIN ps \cup {uid} |-> IF k = uid THEN updated ELSE ps[k]]

clearProcessingState(ps, uid) == [k \in DOMAIN ps \ {uid} |-> ps[k]]

\* ------------------------------------------------------------------ batching
\* parseInt(maxConcurrentRoutes) is <<n>> or <<>> (NaN).
batchSize(maxConcurrentRoutes) ==
    IF maxConcurrentRoutes = Undef THEN Undef
    ELSE Def(IF maxConcurrentRoutes[1] < 2 THEN maxConcurrentRoutes[1] ELSE 2)

\* routeEntries.slice(i, e) as the 1-based manifest positions it holds (0 <= i).
slice(n, i, e) ==
    LET hi == IF e < n THEN e ELSE n
    IN IF hi <= i THEN <<>> ELSE [p \in 1..(hi - i) |-> i + p]

\* The loop `for (i = 0; i < n; i += batchSize)` does not end when batchSize
\* is a number <= 0 and there is an entry.
Hangs(n, bs) == n > 0 /\ bs # Undef /\ bs[1] <= 0

RECURSIVE buildBatches(_, _, _, _)
buildBatches(n, bs, i, acc) ==
    IF i < n THEN buildBatches(n, bs, i + bs, Append(acc, slice(n, i, i + bs))) ELSE acc

\* With batchSize NaN the loop runs once (0 < n), pushes slice(0, NaN) = []
\* and stops at i = NaN.
batches(n, bs) ==
    IF bs = Undef THEN (IF n > 0 THEN << <<>> >> ELSE <<>>)
    ELSE buildBatches(n, bs[1], 0, <<>>)

globalIndex(b, bs, index) == b * bs + index + 1

Batches(j) == batches(Len(routeEntries[j]), batchSize(opts[j].maxConcurrentRoutes))

BatchOf(j) == IF batchIndex[j] \in 1..Len(Batches(j)) THEN Batches(j)[batchIndex[j]] ELSE <<>>

Range(s) == {s[k] : k \in 1..Len(s)}

\* --------------------------------------------------------------- item results
\* The result object of processSingleRouteEnhancedWithVisibility; hasCounts is
\* the truthiness of result.enhancedCollectionCounts ({} is truthy), counts the
\* collections it reports records for.
NewResult(routeNumber) ==
    [routeNumber |-> routeNumber, status |-> "failed", hasCounts |-> TRUE,
     enhancedDataCollectionAttempted |-> FALSE, enhancedDataCollectionSuccessful |-> FALSE,
     counts |-> {}, visibilityAnalysisAttempted |-> FALSE,
     visibilityAnalysisSuccessful |-> FALSE]

\* The result the batch loop writes for a rejected wrapper.
RejectedResult(routeNumber) ==
    [routeNumber |-> routeNumber, status |-> "failed", hasCounts |-> FALSE,
     enhancedDataCollectionAttempted |-> FALSE, enhancedDataCollectionSuccessful |-> FALSE,
     counts |-> {}, visibilityAnalysisAttempted |-> FALSE,
     visibilityAnalysisSuccessful |-> FALSE]

NoLists == [successful |-> <<>>, failed |-> <<>>, skipped |-> <<>>]

\* ------------------------------------------------------------- job start
InitialState(n) ==
    [f \in {"status", "totalRoutes", "completedRoutes", "failedRoutes",
            "enhancedDataCollection", "visibilityAnalysis"} |->
        CASE f = "status" -> Def("starting")
          [] f = "totalRoutes" -> Def(n)
          [] f = "completedRoutes" -> Def(0)
          [] f = "failedRoutes" -> Def(0)
          [] OTHER -> Def("obj")]

NoUpdate == [f \in {} |-> Undef]

Only(f, v) == [g \in {f} |-> v]

\* The state after the batch's status update and the status update each
\* item's callback makes before its first await.
stateAtDispatch(ps, batch) ==
    LET ps1 == updateProcessingState(ps, userId, NoUpdate)
    IN IF batch = <<>> THEN ps1
       ELSE updateProcessingState(ps1, userId, Only("visibilityAnalysis", Def("obj")))

firstStage(o) == IF o.skipExistingRoutes THEN "lookup" ELSE "load"

\* for-loop iteration up to `await Promise.allSettled`: batch b (1-based here,
\* batchIndex + 1 in the code) of job j is dispatched from state ps.
DispatchBatch(j, b, ps) ==
    LET batch == Batches(j)[b]
        bs == batchSize(opts[j].maxConcurrentRoutes)
        at(i) == CHOOSE k \in 1..Len(batch) : batch[k] = i
    IN /\ processingStates' = stateAtDispatch(ps, batch)
       /\ batchIndex' = [batchIndex EXCEPT ![j] = b]
       /\ pc' = [pc EXCEPT ![j] = "await"]
       /\ wrapper' = [wrapper EXCEPT ![j] =
              [i \in Items |-> IF i \in Range(batch) THEN "pending" ELSE wrapper[j][i]]]
       /\ pipe' = [pipe EXCEPT ![j] =
              [i \in Items |-> IF i \in Range(batch) THEN firstStage(opts[j]) ELSE pipe[j][i]]]
       /\ res' = [res EXCEPT ![j] =
              [i \in Items |-> IF i \in Range(batch)
                               THEN NewResult(globalIndex(b - 1, bs[1], at(i) - 1))
                               ELSE res[j][i]]]

\* A final update that reports a job whose every item failed as 'failed'.
finalStateFailedJob(ps, j, lists) ==
    updateProcessingState(ps, userId,
        [f \in {"status", "completedRoutes", "failedRoutes", "results"} |->
            CASE f = "status" ->
                   Def(IF lists.failed # <<>> /\ Len(lists.failed) = Len(routeEntries[j])
                       THEN "failed" ELSE "completed")
              [] f = "completedRoutes" -> Def(Len(lists.successful))
              [] f = "failedRoutes" -> Def(Len(lists.failed))
              [] OTHER -> Def([job |-> j, successful |-> Len(lists.successful),
                               skipped |-> Len(lists.skipped),
                               failed |-> Len(lists.failed)])])

\* The end of processRoutesEnhancedWithVisibilityAndStatus: the final update.
finalState(ps, j, lists) ==
    updateProcessingState(ps, userId,
        [f \in {"status", "completedRoutes", "failedRoutes", "results"} |->
            CASE f = "status" -> Def("completed")
              [] f = "completedRoutes" -> Def(Len(lists.successful))
              [] f = "failedRoutes" -> Def(Len(lists.failed))
              [] OTHER -> Def([job |-> j, successful |-> Len(lists.successful),
                               skipped |-> Len(lists.skipped),
                               failed |-> Len(lists.failed)])])

Finalize(j, ps, lists) ==
    /\ processingStates' = finalState(ps, j, lists)
    /\ results' = [results EXCEPT ![j] = lists]
    /\ pc' = [pc EXCEPT ![j] = IF opts[j].backgroundProcessing THEN "saving" ELSE "done"]

\* The catch of processRoutesInBackgroundEnhancedWithVisibility.
backgroundCatch(ps) ==
    updateProcessingState(ps, userId,
        [f \in {"status", "error"} |->
            IF f = "status" THEN Def("failed") ELSE Def("message")])

Hung == \E j \in Jobs : pc[j] = "hung"

\* --------------------------------------------------- collecting a batch
\* One callback of batchResults.forEach, for the k-th result of the batch.
\* acc is [ps, lists, thrown]: a TypeError on a missing state or a missing
\* enhancedDataCollection object ends the forEach (and the job function).
collectOne(j, b, batch, k, acc) ==
    LET i == batch[k]
        bs == batchSize(opts[j].maxConcurrentRoutes)
        routeResult == IF wrapper[j][i] = "fulfilled" THEN res[j][i]
                       ELSE RejectedResult(globalIndex(b - 1, bs[1], k - 1))
        lists == IF routeResult.status = "successful"
                 THEN [acc.lists EXCEPT !.successful = Append(@, routeResult.routeNumber)]
                 ELSE IF routeResult.status = "skipped"
                 THEN [acc.lists EXCEPT !.skipped = Append(@, routeResult.routeNumber)]
                 ELSE [acc.lists EXCEPT !.failed = Append(@, routeResult.routeNumber)]
        currentState == getProcessingState(acc.ps, userId)
        plus(x, d) == IF x = Undef THEN Undef ELSE Def(x[1] + d)
    IN IF currentState = Undef
       THEN [ps |-> acc.ps, lists |-> lists, thrown |-> TRUE]
       ELSE IF ~routeResult.hasCounts
       THEN [ps |-> acc.ps, lists |-> lists, thrown |-> FALSE]
       ELSE IF currentState[1].enhancedDataCollection = Undef
               \/ currentState[1].visibilityAnalysis = Undef
       THEN [ps |-> acc.ps, lists |-> lists, thrown |-> TRUE]
       ELSE [ps |-> updateProcessingState(acc.ps, userId,
                       [f \in {"completedRoutes", "failedRoutes",
                               "enhancedDataCollection", "visibilityAnalysis"} |->
                           CASE f = "completedRoutes" ->
                                  plus(currentState[1].completedRoutes,
                                       IF routeResult.status = "successful" THEN 1 ELSE 0)
                             [] f = "failedRoutes" ->
                                  plus(currentState[1].failedRoutes,
                                       IF routeResult.status = "failed" THEN 1 ELSE 0)
                             [] OTHER -> Def("obj")]),
             lists |-> lists, thrown |-> FALSE]

RECURSIVE forEachResult(_, _, _, _, _)
forEachResult(j, b, batch, k, acc) ==
    IF k > Len(batch) \/ acc.thrown THEN acc
    ELSE forEachResult(j, b, batch, k + 1, collectOne(j, b, batch, k, acc))

\* Promise.race in place of Promise.allSettled: the first settled item resumes
\* the batch loop.
AnySettled(j) ==
    \E i \in Range(BatchOf(j)) : wrapper[j][i] \in {"fulfilled", "rejected"}

AllSettled(j) ==
    \A i \in Range(BatchOf(j)) : wrapper[j][i] \in {"fulfilled", "rejected"}

\* -------------------------------------------------------------- job actions
\* POST /process-csv-enhanced after the manifest is parsed, up to the first
\* await of the job function that waits for more than resolved promises: with
\* no batch, or one empty batch (Promise.allSettled([])), that is its end.
Submit(j) ==
    /\ ~Hung
    /\ pc[j] = "idle"
    /\ \A k \in Jobs : k < j => pc[k] # "idle"
    /\ sequential => \A k \in Jobs : k < j => pc[k] \in {"done", "fault"}
    /\ LET n == Len(routeEntries[j])
           bs == batchSize(opts[j].maxConcurrentRoutes)
           ps0 == updateProcessingState(processingStates, userId, InitialState(n))
           ps1 == updateProcessingState(ps0, userId, Only("status", Def("processing")))
       IN IF Hangs(n, bs)
          THEN /\ processingStates' = ps1
               /\ pc' = [pc EXCEPT ![j] = "hung"]
               /\ UNCHANGED <<batchIndex, results, wrapper, pipe, res>>
          ELSE IF Batches(j) = <<>>
          THEN /\ Finalize(j, ps1, NoLists)
               /\ UNCHANGED <<batchIndex, wrapper, pipe, res>>
          ELSE IF Batches(j) = << <<>> >>
          THEN /\ Finalize(j, stateAtDispatch(ps1, <<>>), NoLists)
               /\ UNCHANGED <<batchIndex, wrapper, pipe, res>>
          ELSE /\ DispatchBatch(j, 1, ps1)
               /\ UNCHANGED results
    /\ UNCHANGED <<routes, routeEntries, opts, sequential, parseVars, detailVars, tasks, recs>>

\* The continuation of `await Promise.allSettled`: the forEach over the
\* batch's results, then the pause, or the end of the job function.
Collect(j) ==
    /\ ~Hung
    /\ pc[j] = "await"
    /\ AllSettled(j)
    /\ LET acc == forEachResult(j, batchIndex[j], BatchOf(j), 1,
                      [ps |-> processingStates, lists |-> results[j], thrown |-> FALSE])
       IN IF acc.thrown
          THEN /\ processingStates' = IF opts[j].backgroundProcessing
                                      THEN backgroundCatch(acc.ps) ELSE acc.ps
               /\ results' = [results EXCEPT ![j] = acc.lists]
               /\ pc' = [pc EXCEPT ![j] = "fault"]
          ELSE IF batchIndex[j] < Len(Batches(j))
          THEN /\ processingStates' = acc.ps
               /\ results' = [results EXCEPT ![j] = acc.lists]
               /\ pc' = [pc EXCEPT ![j] = "pause"]
          ELSE Finalize(j, acc.ps, acc.lists)
    /\ UNCHANGED <<routes, routeEntries, opts, sequential, parseVars, detailVars, batchIndex, wrapper, pipe, res, tasks, recs>>

\* The 2 s pause is over: the next iteration of the batch loop.
NextBatch(j) ==
    /\ ~Hung
    /\ pc[j] = "pause"
    /\ DispatchBatch(j, batchIndex[j] + 1, processingStates)
    /\ UNCHANGED <<routes, routeEntries, opts, sequential, parseVars, detailVars, results, tasks, recs>>

\* processRoutesInBackgroundEnhancedWithVisibility after the job function
\* returned: the results file is written, or the write throws.
BackgroundSave(j, written) ==
    /\ ~Hung
    /\ pc[j] = "saving"
    /\ pc' = [pc EXCEPT ![j] = "done"]
    /\ processingStates' = IF written THEN processingStates
                           ELSE backgroundCatch(processingStates)
    /\ UNCHANGED <<routes, routeEntries, opts, sequential, parseVars, detailVars, batchIndex, results, wrapper, pipe, res,
                   tasks, recs>>

\* The 400 s timer of an item's Promise.race fires before the pipeline returns.
ItemTimeout(j, i) ==
    /\ ~Hung
    /\ wrapper[j][i] = "pending"
    /\ wrapper' = [wrapper EXCEPT ![j][i] = "rejected"]
    /\ UNCHANGED <<processingStates, routes, routeEntries, opts, sequential, parseVars, detailVars, pc, batchIndex, results,
                   pipe, res, tasks, recs>>

\* ----------------------------------------------------- the other endpoints
\* POST /cancel
Cancel ==
    /\ ~Hung
    /\ processingStates' = updateProcessingState(processingStates, userId,
                               Only("status", Def("cancelled")))
    /\ UNCHANGED <<routes, routeEntries, opts, sequential, parseVars, detailVars, pc, batchIndex, results, wrapper, pipe,
                   res, tasks, recs>>

\* What GET /status answers: 404 without a state, else the stored values
\* (`state.status || 'processing'`, `state.totalRoutes || 0`, ...).
orElse(x, d) == IF x = Undef THEN d ELSE x[1]

IsStale(st) == st.lastUpdate = Def("old")

statusResponse(ps) ==
    LET state == getProcessingState(ps, userId)
    IN IF state = Undef THEN [code |-> 404]
       ELSE IF IsStale(state[1]) THEN [code |-> 200, status |-> "completed"]
       ELSE [code |-> 200,
             status |-> orElse(state[1].status, "processing"),
             totalRoutes |-> orElse(state[1].totalRoutes, 0),
             completedRoutes |-> orElse(state[1].completedRoutes, 0),
             failedRoutes |-> orElse(state[1].failedRoutes, 0),
             results |-> state[1].results]

\* GET /status: a state not updated for more than 5 minutes is cleared.
StatusPoll ==
    /\ ~Hung
    /\ processingStates' =
          IF userId \in DOMAIN processingStates /\ IsStale(processingStates[userId])
          THEN clearProcessingState(processingStates, userId)
          ELSE processingStates
    /\ UNCHANGED <<routes, routeEntries, opts, sequential, parseVars, detailVars, pc, batchIndex, results, wrapper, pipe,
                   res, tasks, recs>>

\* More than 5 minutes pass without an update of the state.  That takes a
\* wait that long: no job is in its 2 s pause or about to collect a batch.
LongWait ==
    /\ ~Hung
    /\ userId \in DOMAIN processingStates
    /\ ~IsStale(processingStates[userId])
    /\ \A j \in Jobs : pc[j] # "pause" /\ ~(pc[j] = "await" /\ AllSettled(j))
    /\ processingStates' = [processingStates EXCEPT ![userId].lastUpdate = Def("old")]
    /\ UNCHANGED <<routes, routeEntries, opts, sequential, parseVars, detailVars, pc, batchIndex, results, wrapper, pipe,
                   res, tasks, recs>>

\* ------------------------------------------------------ the item pipeline
\* The promise of an item's callback resolves with the result: its wrapper is
\* fulfilled unless the timer has rejected it already.
settle(w, stage) == IF stage = "done" /\ w = "pending" THEN "fulfilled" ELSE w

\* After the route exists and the enhanced collection is over (or was not
\* asked for): the automatic visibility analysis, if enabled.
afterCollection(o, r) ==
    IF o.enableAutomaticVisibilityAnalysis
    THEN [stage |-> "vis", result |-> [r EXCEPT !.visibilityAnalysisAttempted = TRUE]]
    ELSE [stage |-> "done", result |-> r]

Advance(j, i, step) ==
    /\ pipe' = [pipe EXCEPT ![j][i] = step.stage]
    /\ res' = [res EXCEPT ![j][i] = step.result]
    /\ wrapper' = [wrapper EXCEPT ![j][i] = settle(@, step.stage)]

existingRoute(entry) ==
    {r \in routes : r.userId = userId /\ r.fromCode = entry.fromcode
                                      /\ r.toCode = entry.tocode}

\* The continuation of `await Route.findOne(...)`.
lookupStep(o, r, found) ==
    IF found
    THEN [stage |-> IF o.enableAutomaticVisibilityAnalysis THEN "visExisting" ELSE "done",
          result |-> [r EXCEPT !.status = "skipped"]]
    ELSE [stage |-> "load", result |-> r]

Lookup(j, i) ==
    /\ ~Hung
    /\ pipe[j][i] = "lookup"
    /\ Advance(j, i, lookupStep(opts[j], res[j][i], existingRoute(routeEntries[j][i]) # {}))
    /\ UNCHANGED <<processingStates, routes, routeEntries, opts, sequential, parseVars, detailVars, pc, batchIndex, results,
                   tasks, recs>>

\* The continuation of `await loadGPSDataOptimized(...)`: the file is not
\* found, holds fewer than 2 valid points, or is loaded.
loadStep(r, outcome) ==
    IF outcome = "loaded" THEN [stage |-> "create", result |-> r]
    ELSE [stage |-> "done", result |-> r]

LoadGPS(j, i, outcome) ==
    /\ ~Hung
    /\ pipe[j][i] = "load"
    /\ Advance(j, i, loadStep(res[j][i], outcome))
    /\ UNCHANGED <<processingStates, routes, routeEntries, opts, sequential, parseVars, detailVars, pc, batchIndex, results,
                   tasks, recs>>

\* The tasks collectEnhancedDataForRoute launches.
launched(o) ==
    LET mode == o.dataCollectionMode
        full == mode \in {"comprehensive", "complete"}
    IN {t \in Tasks :
          \/ t = "basic" /\ mode \in {"basic", "comprehensive", "complete"}
          \/ t = "sharpTurns" /\ o.includeSharpTurns /\ full
          \/ t = "networkCoverage" /\ o.includeNetworkCoverage /\ full
          \/ t = "roadConditions" /\ o.includeEnhancedRoadConditions /\ full
          \/ t = "accidentData" /\ o.includeAccidentData /\ full
          \/ t = "seasonalWeather" /\ o.includeSeasonalWeather /\ mode = "complete"}

\* route.save() of the Route model: the document is inserted; the store keeps
\* no constraint on (userId, fromCode, toCode) beyond the lookup above.
save(store, route) == store \cup {route}

\* The continuation of `await createRouteOptimized(...)` (route.save()), up to
\* the await in collectEnhancedDataForRoute or in the visibility analysis.
createStep(o, r, saved) ==
    IF ~saved THEN [stage |-> "done", result |-> r]
    ELSE IF o.dataCollectionMode # "none"
    THEN [stage |-> "enrich",
          result |-> [r EXCEPT !.status = "successful",
                               !.enhancedDataCollectionAttempted = TRUE]]
    ELSE afterCollection(o, [r EXCEPT !.status = "successful"])

CreateRoute(j, i, saved) ==
    /\ ~Hung
    /\ pipe[j][i] = "create"
    /\ Advance(j, i, createStep(opts[j], res[j][i], saved))
    /\ routes' = IF saved
                 THEN save(routes, [userId |-> userId,
                                    fromCode |-> routeEntries[j][i].fromcode,
                                    toCode |-> routeEntries[j][i].tocode,
                                    job |-> j, item |-> i])
                 ELSE routes
    /\ tasks' = IF saved /\ opts[j].dataCollectionMode # "none"
                THEN [tasks EXCEPT ![j][i] =
                         [t \in Tasks |-> IF t \in launched(opts[j]) THEN "running" ELSE "off"]]
                ELSE tasks
    /\ UNCHANGED <<processingStates, routeEntries, opts, sequential, parseVars, detailVars, pc, batchIndex, results, recs>>

\* countRecordsCreated: the records in the store per collection; the seasonal
\* weather count is always 0.  A failed count yields zeros.
countRecordsCreated(written, counted) ==
    IF counted THEN written \ {"seasonalWeather"} ELSE {}

\* A collection that fails the item when no record was created.
collectedStepStrict(o, r, counts) ==
    afterCollection(o, [r EXCEPT !.enhancedDataCollectionSuccessful = (counts # {}),
                                 !.counts = counts,
                                 !.status = IF counts = {} THEN "failed" ELSE @])

collectedStep(o, r, counts) ==
    afterCollection(o, [r EXCEPT !.enhancedDataCollectionSuccessful = (counts # {}),
                                 !.counts = counts])

\* A task without its .catch: its exception rejects Promise.all, and the catch
\* of collectEnhancedDataForRoute returns the zero counts at once.
TaskSettleUncaught(j, i, t, outcome) ==
    /\ ~Hung
    /\ tasks[j][i][t] = "running"
    /\ tasks' = [tasks EXCEPT ![j][i][t] = IF outcome = "throws" THEN "err" ELSE "ok"]
    /\ recs' = IF outcome = "records" THEN [recs EXCEPT ![j][i] = @ \cup {t}] ELSE recs
    /\ IF outcome = "throws" /\ pipe[j][i] = "enrich"
       THEN Advance(j, i, collectedStep(opts[j], res[j][i], {}))
       ELSE UNCHANGED <<wrapper, pipe, res>>
    /\ UNCHANGED <<processingStates, routes, routeEntries, opts, sequential, parseVars, detailVars, pc, batchIndex,
                   results>>

\* An enrichment task settles: it has written records, written none, or it
\* throws (its .catch turns that into a fulfilled { error }).
TaskSettle(j, i, t, outcome) ==
    /\ ~Hung
    /\ tasks[j][i][t] = "running"
    /\ tasks' = [tasks EXCEPT ![j][i][t] = IF outcome = "throws" THEN "err" ELSE "ok"]
    /\ recs' = IF outcome = "records" THEN [recs EXCEPT ![j][i] = @ \cup {t}] ELSE recs
    /\ UNCHANGED <<processingStates, routes, routeEntries, opts, sequential, parseVars, detailVars, pc, batchIndex, results,
                   wrapper, pipe, res>>

\* Promise.all of the launched tasks wins the race: the records are counted.
EnrichDone(j, i, counted) ==
    /\ ~Hung
    /\ pipe[j][i] = "enrich"
    /\ \A t \in Tasks : tasks[j][i][t] # "running"
    /\ Advance(j, i, collectedStep(opts[j], res[j][i],
                                   countRecordsCreated(recs[j][i], counted)))
    /\ UNCHANGED <<processingStates, routes, routeEntries, opts, sequential, parseVars, detailVars, pc, batchIndex, results,
                   tasks, recs>>

\* The 180 s timer wins the race: the catch returns the zero counts.
EnrichTimeout(j, i) ==
    /\ ~Hung
    /\ pipe[j][i] = "enrich"
    /\ \E t \in Tasks : tasks[j][i][t] = "running"
    /\ Advance(j, i, collectedStep(opts[j], res[j][i], {}))
    /\ UNCHANGED <<processingStates, routes, routeEntries, opts, sequential, parseVars, detailVars, pc, batchIndex, results,
                   tasks, recs>>

\* performAutomaticVisibilityAnalysis returns { success }: it catches its own
\* timeout and every exception, so the callers' catch blocks never run.
visStep(o, r, success) ==
    [stage |-> "done",
     result |-> [r EXCEPT !.visibilityAnalysisSuccessful = success,
                          !.status = IF ~success /\ ~o.continueOnVisibilityFailure
                                     THEN "failed" ELSE @]]

Visibility(j, i, success) ==
    /\ ~Hung
    /\ pipe[j][i] = "vis"
    /\ Advance(j, i, visStep(opts[j], res[j][i], success))
    /\ UNCHANGED <<processingStates, routes, routeEntries, opts, sequential, parseVars, detailVars, pc, batchIndex, results,
                   tasks, recs>>

visExistingStep(o, r, success) ==
    [stage |-> "done",
     result |-> [r EXCEPT !.visibilityAnalysisAttempted = TRUE,
                          !.visibilityAnalysisSuccessful = success]]

VisibilityExisting(j, i, success) ==
    /\ ~Hung
    /\ pipe[j][i] = "visExisting"
    /\ Advance(j, i, visExistingStep(opts[j], res[j][i], success))
    /\ UNCHANGED <<processingStates, routes, routeEntries, opts, sequential, parseVars, detailVars, pc, batchIndex, results,
                   tasks, recs>>

\* ------------------------------------------------------------ specification
AB == [fromcode |-> "A", tocode |-> "B"]
CD == [fromcode |-> "C", tocode |-> "D"]

\* The defaults the handler gives the options of the request body.
DefaultOptions ==
    [maxConcurrentRoutes |-> Def(2), skipExistingRoutes |-> TRUE,
     backgroundProcessing |-> FALSE, dataCollectionMode |-> "comprehensive",
     includeSharpTurns |-> TRUE, includeNetworkCoverage |-> TRUE,
     includeEnhancedRoadConditions |-> TRUE, includeAccidentData |-> TRUE,
     includeSeasonalWeather |-> TRUE, enableAutomaticVisibilityAnalysis |-> TRUE,
     continueOnVisibilityFailure |-> TRUE]

\* A request that asks for the routes only.
RoutesOnly ==
    [DefaultOptions EXCEPT !.dataCollectionMode = "none",
                           !.enableAutomaticVisibilityAnalysis = FALSE]

\* A request for the routes and their visibility analysis.
WithVisibility == [DefaultOptions EXCEPT !.dataCollectionMode = "none"]

\* A request for two collections (basic data, sharp turns), no visibility.
TwoCollections ==
    [DefaultOptions EXCEPT !.includeNetworkCoverage = FALSE,
                           !.includeEnhancedRoadConditions = FALSE,
                           !.includeAccidentData = FALSE,
                           !.enableAutomaticVisibilityAnalysis = FALSE]

\* The longest manifest: A-B, C-D, A-B, ...
LongManifest == [p \in 1..MaxItems |-> IF p % 2 = 1 THEN AB ELSE CD]

Scenario(entries, options, seq) ==
    [routeEntries |-> entries, opts |-> options, sequential |-> seq]

\* The requests of a run: the manifests and options of the two submissions
\* and whether the client waits for the first job before it sends the second.
Scenarios ==
    \* a long manifest in batches of 2
    { Scenario(<<LongManifest, <<>>>>, <<RoutesOnly, RoutesOnly>>, TRUE) }
    \cup
    \* a second submission while the first job runs
    { Scenario(<<<<AB>>, <<AB>>>>, <<RoutesOnly, RoutesOnly>>, FALSE) }
    \cup
    \* maxConcurrentRoutes that is no number, zero or negative
    { Scenario(<<<<AB>>, <<>>>>,
               <<[RoutesOnly EXCEPT !.maxConcurrentRoutes = m], RoutesOnly>>, FALSE) :
        m \in {Undef, Def(0), Def(0 - 1)} }
    \cup
    \* the same manifest run twice, the second run after the first
    { Scenario(<<<<AB>>, <<AB>>>>,
               <<[WithVisibility EXCEPT !.continueOnVisibilityFailure = c],
                 [WithVisibility EXCEPT !.continueOnVisibilityFailure = c]>>, TRUE) :
        c \in BOOLEAN }
    \cup
    \* two enrichment tasks for one item, in the background
    { Scenario(<<<<AB>>, <<>>>>,
               <<[TwoCollections EXCEPT !.backgroundProcessing = TRUE], RoutesOnly>>, TRUE) }

TypeInit ==
    /\ processingStates = [k \in {} |-> Undef]
    /\ routes = {}
    /\ pc = [j \in Jobs |-> "idle"]
    /\ batchIndex = [j \in Jobs |-> 0]
    /\ results = [j \in Jobs |-> NoLists]
    /\ wrapper = [j \in Jobs |-> [i \in Items |-> "none"]]
    /\ pipe = [j \in Jobs |-> [i \in Items |-> "none"]]
    /\ res = [j \in Jobs |-> [i \in Items |-> NewResult(0)]]
    /\ tasks = [j \in Jobs |-> [i \in Items |-> [t \in Tasks |-> "off"]]]
    /\ recs = [j \in Jobs |-> [i \in Items |-> {}]]

\* ------------------------------------------------------- parseBulkRoutesCSV
MaxRows == 2

Headers == {"fromcode", "fromname", "tocode", "toname"}

\* A cell as csv-parser delivers it: undefined when the line has too few
\* columns, else the text as read (csv-parser has no trim option, so the
\* option trim: true changes nothing).  A text is a sequence of characters.
Cells == {Undef, Def(<<" ">>), Def(<<" ", "a">>)}

Rows == [Headers -> Cells]

Manifests == UNION {[1..n -> Rows] : n \in 0..MaxRows}

RECURSIVE trimStart(_)
trimStart(text) ==
    IF text # <<>> /\ Head(text) = " " THEN trimStart(Tail(text)) ELSE text

RECURSIVE trimEnd(_)
trimEnd(text) ==
    IF text # <<>> /\ text[Len(text)] = " "
    THEN trimEnd(SubSeq(text, 1, Len(text) - 1)) ELSE text

\* String.prototype.trim
trim(text) == trimEnd(trimStart(text))

\* !cell is false: the cell is neither undefined nor the empty string.
truthy(cell) == cell # Undef /\ cell[1] # <<>>

\* The 'data' handler: a row with a falsy cell is an error; the four cells are
\* trimmed; a row whose trimmed fromcode or tocode is empty is an error; any
\* other row is pushed.
onData(row, list, errors) ==
    IF \E h \in Headers : ~truthy(row[h])
    THEN [routes |-> list, errors |-> Append(errors, "Missing required fields")]
    ELSE LET route == [h \in Headers |-> trim(row[h][1])]
         IN IF route.fromcode = <<>> \/ route.tocode = <<>>
            THEN [routes |-> list, errors |-> Append(errors, "Empty from/to codes")]
            ELSE [routes |-> Append(list, route), errors |-> errors]

OnData ==
    /\ parsePc = "reading"
    /\ rowsRead < Len(manifest)
    /\ LET after == onData(manifest[rowsRead + 1], parsedRoutes, parseErrors)
       IN /\ parsedRoutes' = after.routes
          /\ parseErrors' = after.errors
    /\ rowsRead' = rowsRead + 1
    /\ UNCHANGED <<jobVars, detailVars, manifest, parsePc>>

\* The 'end' handler resolves with the array routes alone.
OnEnd ==
    /\ parsePc = "reading"
    /\ rowsRead = Len(manifest)
    /\ parsePc' = "resolved"
    /\ UNCHANGED <<jobVars, detailVars, manifest, rowsRead, parsedRoutes, parseErrors>>

\* The 'error' handler: the stream fails and the promise is rejected.
OnError ==
    /\ parsePc = "reading"
    /\ parsePc' = "rejected"
    /\ UNCHANGED <<jobVars, detailVars, manifest, rowsRead, parsedRoutes, parseErrors>>

\* What the request handler tells the caller about the parsed manifest.
parseReport(entries) == [totalRoutes |-> Len(entries)]

NoUpload ==
    /\ manifest = <<>>
    /\ rowsRead = 0
    /\ parsedRoutes = <<>>
    /\ parseErrors = <<>>
    /\ parsePc = "none"

\* ------------------------------------------- calculateRouteDetailsOptimized
MaxGpsPoints == 2100

\* parseGPSExcelFileOptimized reads at most maxPoints rows.
maxPoints == 50000

maxRoutePoints == 1000

\* The lengths of the point sequences the route is created from: at least 2
\* (the pipeline throws below that), at most maxPoints.
GpsLengths == {n \in 2..MaxGpsPoints : n <= maxPoints}

\* Math.max(1, Math.floor(gpsPoints.length / maxRoutePoints))
step(n) == IF n \div maxRoutePoints > 1 THEN n \div maxRoutePoints ELSE 1

\* The indexes `for (i = 0; i < gpsPoints.length; i += step)` visits; one
\* point is pushed for each.
visited(n) == {i \in 0..(n - 1) : i % step(n) = 0}

CalculateRouteDetails ==
    /\ gpsPointsLength # Undef
    /\ routePointsLength = Undef
    /\ routePointsLength' = Def(Cardinality(visited(gpsPointsLength[1])))
    /\ UNCHANGED <<jobVars, parseVars, gpsPointsLength>>

NoDetails ==
    /\ gpsPointsLength = Undef
    /\ routePointsLength = Undef

Init ==
    /\ TypeInit
    /\ NoUpload
    /\ NoDetails
    /\ \E sc \in Scenarios :
          /\ routeEntries = sc.routeEntries
          /\ opts = sc.opts
          /\ sequential = sc.sequential

\* A file has been uploaded and its parse begins; no job has started yet.
ParseInit ==
    /\ TypeInit
    /\ routeEntries = <<<<>>, <<>>>>
    /\ opts = <<DefaultOptions, DefaultOptions>>
    /\ sequential = TRUE
    /\ manifest \in Manifests
    /\ rowsRead = 0
    /\ parsedRoutes = <<>>
    /\ parseErrors = <<>>
    /\ parsePc = "reading"
    /\ NoDetails

ParseNext == OnData \/ OnEnd \/ OnError

ParseSpec == ParseInit /\ [][ParseNext]_vars

\* A GPS file has been read and the route details are about to be computed.
DetailInit ==
    /\ TypeInit
    /\ NoUpload
    /\ routeEntries = <<<<>>, <<>>>>
    /\ opts = <<DefaultOptions, DefaultOptions>>
    /\ sequential = TRUE
    /\ gpsPointsLength \in {Def(n) : n \in GpsLengths}
    /\ routePointsLength = Undef

DetailNext == CalculateRouteDetails

DetailSpec == DetailInit /\ [][DetailNext]_vars

Next ==
    \/ \E j \in Jobs : Submit(j)
    \/ \E j \in Jobs : Collect(j)
    \/ \E j \in Jobs : NextBatch(j)
    \/ \E j \in Jobs, written \in BOOLEAN : BackgroundSave(j, written)
    \/ \E j \in Jobs, i \in Items : ItemTimeout(j, i)
    \/ Cancel
    \/ StatusPoll
    \/ LongWait
    \/ \E j \in Jobs, i \in Items : Lookup(j, i)
    \/ \E j \in Jobs, i \in Items, outcome \in {"notFound", "insufficient", "loaded"} :
          LoadGPS(j, i, outcome)
    \/ \E j \in Jobs, i \in Items, saved \in BOOLEAN : CreateRoute(j, i, saved)
    \/ \E j \in Jobs, i \in Items, t \in Tasks, outcome \in {"records", "empty", "throws"} :
          TaskSettle(j, i, t, outcome)
    \/ \E j \in Jobs, i \in Items, counted \in BOOLEAN : EnrichDone(j, i, counted)
    \/ \E j \in Jobs, i \in Items : EnrichTimeout(j, i)
    \/ \E j \in Jobs, i \in Items, success \in BOOLEAN : Visibility(j, i, success)
    \/ \E j \in Jobs, i \in Items, success \in BOOLEAN : VisibilityExisting(j, i, success)

Spec == Init /\ [][Next]_vars

\* ------------------------------------------------------------------ claims
\* The values of the owner's state that the status endpoint reports.
StatusOf(ps) == IF userId \in DOMAIN ps THEN orElse(ps[userId].status, "none") ELSE "none"

CountOf(ps, f) == IF userId \in DOMAIN ps THEN orElse(ps[userId][f], 0) ELSE 0

SkippedOf(ps) ==
    IF userId \in DOMAIN ps /\ ps[userId].results # Undef
    THEN ps[userId].results[1].skipped ELSE 0

JobFields(ps) ==
    <<StatusOf(ps), CountOf(ps, "totalRoutes"), CountOf(ps, "completedRoutes"),
      CountOf(ps, "failedRoutes")>>

Running(j) == pc[j] \in {"await", "pause", "saving"}

Settled(j, i) == wrapper[j][i] \in {"fulfilled", "rejected"}

\* The items are numbered by their position: an item's result is recorded
\* when its number is in one of the job's three result lists.
Recorded(j, i) ==
    i \in Range(results[j].successful) \cup Range(results[j].skipped)
          \cup Range(results[j].failed)

Started(j) == {i \in Items : pipe[j][i] \notin {"none", "done"}}

SameKey(r1, r2) ==
    r1.userId = r2.userId /\ r1.fromCode = r2.fromCode /\ r1.toCode = r2.toCode

\* C1: whenever the owner's state has a terminal status (completed, failed,
\* cancelled), completedRoutes + failedRoutes + the skipped items equals
\* totalRoutes.
C1_TerminalCountsAddUp ==
    StatusOf(processingStates) \in Terminal =>
        CountOf(processingStates, "completedRoutes")
          + CountOf(processingStates, "failedRoutes")
          + SkippedOf(processingStates) = CountOf(processingStates, "totalRoutes")

\* C2: once the status is 'cancelled' while a job pauses between two batches,
\* that job dispatches no further batch.
C2_NoDispatchAfterCancel ==
    [][\A j \in Jobs :
          (StatusOf(processingStates) = "cancelled" /\ pc[j] = "pause")
             => pc'[j] # "await"]_vars

\* C3: when a manifest has run to its end and the same manifest has then been
\* run again with skipExistingRoutes, the store holds no two routes of the
\* same owner, fromCode and toCode.
C3_RerunCreatesNoDuplicate ==
    (/\ sequential
     /\ routeEntries[1] = routeEntries[2]
     /\ opts[2].skipExistingRoutes
     /\ pc[1] = "done" /\ pc[2] = "done")
       => \A r1, r2 \in routes : SameKey(r1, r2) => r1 = r2

\* C4: when the enrichment of an item ends on its timeout with one task still
\* running, the counts reported for the item hold every sibling task whose
\* records are in the store, as they would had the slow task finished in time.
C4_SiblingCountsKept ==
    [][\A j \in Jobs, i \in Items :
          (/\ pipe[j][i] = "enrich" /\ pipe'[j][i] # "enrich"
           /\ Cardinality({t \in Tasks : tasks[j][i][t] = "running"}) = 1)
             => countRecordsCreated(recs[j][i], TRUE) \subseteq res'[j][i].counts]_vars

\* C5: the item pipelines of a job that have started and not yet finished
\* are never more than min(maxConcurrentRoutes, 2).
C5_InFlightWithinLimit ==
    \A j \in Jobs :
        LET bs == batchSize(opts[j].maxConcurrentRoutes)
        IN (bs # Undef /\ bs[1] >= 1) => Cardinality(Started(j)) <= bs[1]

\* C6: when an item of a batch has been dispatched, every item of every
\* earlier batch of the job has settled and has its result recorded.
C6_BatchesInOrder ==
    \A j \in Jobs :
        pc[j] \notin {"idle", "hung"} =>
            LET B == Batches(j)
            IN \A b \in 1..Len(B) :
                  (\E i \in Range(B[b]) : wrapper[j][i] # "none")
                     => \A b2 \in 1..(b - 1) : \A i2 \in Range(B[b2]) :
                           Settled(j, i2) /\ Recorded(j, i2)

\* The second batch is in flight after an item of the first timed out.
C6_Witness ==
    \E j \in Jobs :
        /\ pc[j] = "await" /\ batchIndex[j] = 2
        /\ \E i \in Range(Batches(j)[1]) : wrapper[j][i] = "rejected"

\* C7 (its finite part): when the batch loop resumes after a batch in which
\* an item timed out, the item is recorded as failed and the loop goes on (to
\* the pause, or to the end of the job): the job does not end in a fault.
C7_TimedOutItemFailsLoopGoesOn ==
    [][\A j \in Jobs :
          (/\ pc[j] = "await" /\ pc'[j] # "await"
           /\ \E i \in Range(BatchOf(j)) : wrapper[j][i] = "rejected")
             => /\ pc'[j] # "fault"
                /\ \A i \in Range(BatchOf(j)) :
                      wrapper[j][i] = "rejected" => i \in Range(results'[j].failed)]_vars

\* C8: while a job runs alone, a status that is completed, failed or
\* cancelled is not changed by a step of that job.
C8_TerminalStatusIsFinal ==
    [][\A j \in Jobs :
          (/\ \A k \in Jobs \ {j} : ~Running(k)
           /\ Running(j) /\ pc'[j] # pc[j]
           /\ StatusOf(processingStates) \in Terminal)
             => StatusOf(processingStates') = StatusOf(processingStates)]_vars

\* C9: once a later job has been submitted while an earlier one runs, no step
\* of the earlier job changes status, totalRoutes, completedRoutes or
\* failedRoutes of the owner's state.
C9_EarlierJobLeavesStateAlone ==
    [][\A j, k \in Jobs :
          (j < k /\ pc[k] # "idle" /\ Running(j) /\ pc'[j] # pc[j])
             => JobFields(processingStates') = JobFields(processingStates)]_vars

\* C10: when an error escapes the collection of a batch and ends the job
\* function, the status of the owner's state is 'failed'.
C10_FaultSetsFailed ==
    [][\A j \in Jobs :
          (pc[j] # "fault" /\ pc'[j] = "fault")
             => StatusOf(processingStates') = "failed"]_vars

\* The items of the batches of job j whose results the batch loop has been
\* through (the forEach has run, to its end or to an exception).
CollectedItems(j) ==
    LET upTo == IF pc[j] = "await" THEN batchIndex[j] - 1 ELSE batchIndex[j]
    IN IF pc[j] \in {"idle", "hung"} THEN {}
       ELSE UNION {Range(Batches(j)[b]) : b \in 1..upTo}

Occurrences(list, i) == Cardinality({k \in 1..Len(list) : list[k] = i})

TimesRecorded(j, i) ==
    Occurrences(results[j].successful, i) + Occurrences(results[j].failed, i)
      + Occurrences(results[j].skipped, i)

\* C11: every item of a batch whose results have been collected is in
\* exactly one of the lists successful, failed, skipped, exactly once, and no
\* other item is in a list.
C11_OneResultPerItem ==
    \A j \in Jobs, i \in Items :
        TimesRecorded(j, i) = IF i \in CollectedItems(j) THEN 1 ELSE 0

Unsettled == \E j \in Jobs, i \in Items : wrapper[j][i] = "pending"

\* C12: the status query answers 404 exactly when the owner has no state;
\* otherwise it answers the stored status and counters, and it does not
\* answer 'completed' while an item of a job is unsettled.
C12_StatusAnswersStoredState ==
    LET r == statusResponse(processingStates)
        Stored(f) == orElse(processingStates[userId][f], 0)
    IN /\ (r.code = 404) <=> (userId \notin DOMAIN processingStates)
       /\ r.code = 200 =>
            /\ r.status = "completed" => ~Unsettled
            /\ r.status = orElse(processingStates[userId].status, "processing")
            /\ "totalRoutes" \in DOMAIN r /\ r.totalRoutes = Stored("totalRoutes")
            /\ "completedRoutes" \in DOMAIN r /\ r.completedRoutes = Stored("completedRoutes")
            /\ "failedRoutes" \in DOMAIN r /\ r.failedRoutes = Stored("failedRoutes")

RecordedCount(j) ==
    Len(results[j].successful) + Len(results[j].failed) + Len(results[j].skipped)

\* C13: the code keeps no checkpoint; what is left of a run that has ended is
\* the number of items it recorded.  A run of the same manifest submitted
\* after that run starts no item whose position is within that number.
C13_ResumeSkipsCompleted ==
    (/\ sequential
     /\ routeEntries[1] = routeEntries[2]
     /\ pc[1] \in {"done", "fault"})
       => \A i \in Items : i <= RecordedCount(1) => wrapper[2][i] = "none"

\* C14: when the visibility analysis of an item ends without success, the
\* item's status becomes 'failed' if continueOnVisibilityFailure is false and
\* stays what it was if it is true, for a new route and for an existing one.
C14_VisibilityFailurePolicy ==
    [][\A j \in Jobs, i \in Items :
          (/\ pipe[j][i] \in {"vis", "visExisting"} /\ pipe'[j][i] = "done"
           /\ ~res'[j][i].visibilityAnalysisSuccessful)
             => res'[j][i].status = IF opts[j].continueOnVisibilityFailure
                                    THEN res[j][i].status ELSE "failed"]_vars

LeavesEnrich(j, i) == pipe[j][i] = "enrich" /\ pipe'[j][i] # "enrich"

\* C15 as claimed: a task that fails leaves its siblings and the coordinator
\* alone, and the coordinator returns only when no launched task is running.
C15_ReturnsAfterAllSettled ==
    [][\A j \in Jobs, i \in Items :
          /\ \A t \in Tasks :
                (tasks[j][i][t] = "running" /\ tasks'[j][i][t] = "err")
                   => /\ pipe'[j][i] = pipe[j][i]
                      /\ \A t2 \in Tasks \ {t} : tasks'[j][i][t2] = tasks[j][i][t2]
          /\ LeavesEnrich(j, i) => \A t \in Tasks : tasks[j][i][t] # "running"]_vars

\* C15 as amended: a task that fails leaves its siblings, the item's result
\* and the coordinator alone; the coordinator returns in a step of its own,
\* and when it returns counted records no launched task is running.
C15_FailureIsolation ==
    [][\A j \in Jobs, i \in Items :
          /\ \A t \in Tasks :
                (tasks[j][i][t] = "running" /\ tasks'[j][i][t] = "err")
                   => /\ pipe'[j][i] = pipe[j][i]
                      /\ res'[j][i] = res[j][i]
                      /\ \A t2 \in Tasks \ {t} : tasks'[j][i][t2] = tasks[j][i][t2]
          /\ LeavesEnrich(j, i) =>
                /\ tasks'[j][i] = tasks[j][i]
                /\ res'[j][i].counts # {} => \A t \in Tasks : tasks[j][i][t] # "running"]_vars

\* A task has failed, a sibling has written its records after that and the
\* coordinator has returned with them counted.
C15_Witness ==
    \E j \in Jobs, i \in Items :
        /\ \E t \in Tasks : tasks[j][i][t] = "err"
        /\ \E t \in Tasks : tasks[j][i][t] = "ok" /\ t \in res[j][i].counts
        /\ pipe[j][i] = "done"

\* The rows of the manifest that are valid: all four cells are present and
\* non-empty after trimming.
ValidRow(row) == \A h \in Headers : row[h] # Undef /\ trim(row[h][1]) # <<>>

RECURSIVE ValidItems(_)
ValidItems(rows) ==
    IF rows = <<>> THEN <<>>
    ELSE LET rest == ValidItems(Tail(rows))
         IN IF ValidRow(Head(rows))
            THEN <<[h \in Headers |-> trim(Head(rows)[h][1])]>> \o rest
            ELSE rest

\* C16: a parse that ends returns exactly the manifest's valid rows, trimmed
\* and in manifest order: no malformed row is among the items and no valid
\* row is missing.
C16_ParseReturnsValidRows ==
    parsePc = "resolved" => parsedRoutes = ValidItems(manifest)

\* C17: the caller is told the number of rows that validation rejected, next
\* to totalRoutes.
C17_RowErrorsReported ==
    parsePc = "resolved" =>
       LET r == parseReport(parsedRoutes)
       IN /\ r.totalRoutes = Len(parsedRoutes)
          /\ "rowErrors" \in DOMAIN r
          /\ r.rowErrors = Len(manifest) - Len(parsedRoutes)

RECURSIVE Concat(_)
Concat(seqs) == IF seqs = <<>> THEN <<>> ELSE Head(seqs) \o Concat(Tail(seqs))

\* C18: the batches of a job that has built them are consecutive slices of
\* the manifest: their concatenation is the item list, each has the batch
\* size except possibly the last, and an item's route number is its position.
C18_BatchesPartitionManifest ==
    \A j \in Jobs :
        pc[j] \notin {"idle", "hung"} =>
           LET B == Batches(j)
               n == Len(routeEntries[j])
               bs == batchSize(opts[j].maxConcurrentRoutes)
           IN /\ Concat(B) = [p \in 1..n |-> p]
              /\ \A b \in 1..Len(B) :
                    \/ Len(B[b]) = bs[1]
                    \/ b = Len(B) /\ Len(B[b]) \in 1..bs[1]
              /\ \A i \in Items : wrapper[j][i] # "none" => res[j][i].routeNumber = i

\* C19: in a job that runs alone, once a batch's results are collected the
\* state's completedRoutes is the number of results recorded 'successful' and
\* its failedRoutes the number recorded 'failed'.
C19_CountersFollowResults ==
    \A j \in Jobs :
        (/\ pc[j] = "pause"
         /\ \A k \in Jobs \ {j} : pc[k] = "idle"
         /\ userId \in DOMAIN processingStates)
           => /\ CountOf(processingStates, "completedRoutes") = Len(results[j].successful)
              /\ CountOf(processingStates, "failedRoutes") = Len(results[j].failed)

\* C20: no step (a status query least of all) deletes the owner's
\* ProcessingState while a job still has unsettled items.
C20_PollLeavesRunningJobAlone ==
    [][(userId \in DOMAIN processingStates /\ Unsettled)
          => userId \in DOMAIN processingStates']_vars

\* C21: while every job runs with skipExistingRoutes, the store never holds
\* two routes of the same owner, fromCode and toCode, whatever the jobs'
\* interleaving.
C21_OneRoutePerKey ==
    (\A j \in Jobs : opts[j].skipExistingRoutes)
       => \A r1, r2 \in routes : SameKey(r1, r2) => r1 = r2

\* C22: once an item has been recorded 'failed' on its timeout, a step of its
\* abandoned pipeline changes neither the result lists nor the counters of
\* the owner's state, and it saves no route whose key the store already holds
\* (a retry of the item may have saved it).
C22_LateCompletionIsHarmless ==
    [][\A j \in Jobs, i \in Items :
          (/\ wrapper[j][i] = "rejected" /\ i \in Range(results[j].failed)
           /\ pipe'[j][i] # pipe[j][i])
             => /\ results' = results
                /\ JobFields(processingStates') = JobFields(processingStates)
                /\ \A new \in routes' \ routes, r \in routes : ~SameKey(new, r)]_vars

\* C23 (its finite part): whatever maxConcurrentRoutes is, a job never enters
\* a loop that does not end, and a job that has ended has dispatched every
\* item of its manifest.
C23_EveryItemDispatched ==
    \A j \in Jobs :
        /\ pc[j] # "hung"
        /\ pc[j] = "done" =>
              \A i \in 1..Len(routeEntries[j]) : wrapper[j][i] # "none"

\* The owner's state is there, with the object the batch loop adds to.
StateIntact ==
    /\ userId \in DOMAIN processingStates
    /\ processingStates[userId].enhancedDataCollection # Undef

\* The pipeline of the item has returned 'failed' without an attempt to enrich
\* or to analyse: it ended at the GPS load or at the save.
FailedEarly(j, i) ==
    /\ wrapper[j][i] = "fulfilled"
    /\ res[j][i].status = "failed"
    /\ ~res[j][i].enhancedDataCollectionAttempted
    /\ ~res[j][i].visibilityAnalysisAttempted

CollectionFields ==
    {"enhancedDataCollectionSuccessful", "counts", "visibilityAnalysisAttempted"}

\* C25: while the enhanced data collection of an item runs, its route exists
\* and its status is 'successful'; no step (a task that fails, the timeout,
\* the count of the records, zero records) changes the status, and the step
\* that ends the collection changes only enhancedDataCollectionSuccessful and
\* the counts (and marks the visibility analysis that starts next).
C25_CollectionKeepsSuccess ==
    [][\A j \in Jobs, i \in Items :
          pipe[j][i] = "enrich"
             => /\ res[j][i].status = "successful"
                /\ res'[j][i].status = "successful"
                /\ \E r \in routes : r.job = j /\ r.item = i
                /\ \A f \in DOMAIN res[j][i] \ CollectionFields :
                      res'[j][i][f] = res[j][i][f]]_vars

\* The collection of an item has ended on its timeout with a failed task and
\* no record counted, and the item's pipeline has returned 'successful'.
C25_Witness ==
    \E j \in Jobs, i \in Items :
        /\ pipe[j][i] = "done"
        /\ res[j][i].status = "successful"
        /\ res[j][i].enhancedDataCollectionAttempted
        /\ ~res[j][i].enhancedDataCollectionSuccessful
        /\ \E t \in Tasks : tasks[j][i][t] = "err"
        /\ \E t \in Tasks : tasks[j][i][t] = "running"

RouteOf(j, i) == {r \in routes : r.job = j /\ r.item = i}

\* C26: an item is in the job's list of successful results exactly when the
\* run has persisted a route for it: a recorded item that is not there (it
\* failed or was skipped) has left no new route in the store.
C26_SuccessfulIffRoutePersisted ==
    \A j \in Jobs, i \in Items :
        Recorded(j, i) => (i \in Range(results[j].successful) <=> RouteOf(j, i) # {})

\* C27: while the status of the owner's state is 'starting' or 'processing',
\* the state holds no results and no error (those of an earlier job), so a
\* status query has none to return.
C27_RunningStateHasNoOldResults ==
    (userId \in DOMAIN processingStates
       /\ StatusOf(processingStates) \in {"starting", "processing"})
       => /\ processingStates[userId].results = Undef
          /\ processingStates[userId].error = Undef

\* C28: a step that moves no job (a cancel request, a status query) and that
\* finds no state of the owner leaves the map without one: the status query
\* after it answers 404.
C28_CancelCreatesNoState ==
    [][(/\ userId \notin DOMAIN processingStates
        /\ UNCHANGED <<routes, pc, batchIndex, results, wrapper, pipe, res, tasks, recs>>)
          => /\ processingStates' = processingStates
             /\ statusResponse(processingStates').code = 404]_vars

\* C29: the number of decimated points stored on the route is at most 1000.
C29_RoutePointsWithinCap ==
    routePointsLength # Undef => routePointsLength[1] <= maxRoutePoints

\* The include flag of the options that asks for the task.
IncludeFlag(o, t) ==
    CASE t = "sharpTurns" -> o.includeSharpTurns
      [] t = "networkCoverage" -> o.includeNetworkCoverage
      [] t = "roadConditions" -> o.includeEnhancedRoadConditions
      [] t = "accidentData" -> o.includeAccidentData
      [] t = "seasonalWeather" -> o.includeSeasonalWeather
      [] OTHER -> TRUE

\* C30: when the collection for a newly created route starts (the mode is
\* not 'none'), a task is launched exactly when its include flag is set.
C30_LaunchedIffFlagSet ==
    [][\A j \in Jobs, i \in Items :
          (pipe[j][i] = "create" /\ pipe'[j][i] = "enrich")
             => \A t \in Tasks \ {"basic"} :
                   (tasks'[j][i][t] = "running") <=> IncludeFlag(opts[j], t)]_vars

====
